---- MODULE Spec2Model ----
(***************************************************************************)
(* create_1c_xml.py: one run of create_1c_processing_xml().                *)
(*                                                                         *)
(* A Python str is modelled as the sequence of its Unicode code points, so *)
(* len(), find(), slicing and replace() are computed on the characters the *)
(* program sees.  Every string literal of the source appears below as the  *)
(* tuple of its code points, with the literal in the comment beside it.    *)
(* Indices are 0-based as in Python.                                       *)
(***************************************************************************)
EXTENDS Integers, Sequences, FiniteSets, TLC

(***************************************************************************)
(* Bounds of the explored inputs.                                          *)
(***************************************************************************)
\* longest primary text drawn from every string over Alphabet
MaxPrimaryLen == 3
\* most pieces (markers and filler) an export-functions text is built from
MaxPieces == 3

(***************************************************************************)
(* Python's str operations, as the program uses them.                      *)
(***************************************************************************)
\* s[a:b] for 0 <= a <= b <= len(s)
Slice(s, a, b) == SubSeq(s, a + 1, b)

\* sub occurs in s at 0-based index i
StartsAt(s, sub, i) ==
    /\ i >= 0
    /\ i + Len(sub) <= Len(s)
    /\ \A j \in 1..Len(sub) : s[i + j] = sub[j]

\* s.find(sub, start): the lowest index >= start where sub occurs, else -1
find(s, sub, start) ==
    LET hits == {i \in start..(Len(s) - Len(sub)) : StartsAt(s, sub, i)}
    IN  IF hits = {} THEN -1 ELSE CHOOSE i \in hits : \A k \in hits : i <= k

\* s.replace(old, new) for a non-empty old: the occurrences found left to right, each
\* search resuming after the previous occurrence.  (j \in {find(...)} and v \in {s}
\* name the one value of the find and of s.)
RECURSIVE replace_from(_, _, _, _)
replace_from(s, old, new, i) ==
    CHOOSE r \in {IF j < 0 THEN Slice(s, i, Len(s))
                  ELSE Slice(s, i, j) \o new \o replace_from(s, old, new, j + Len(old)) :
                  j \in {find(s, old, i)}} : TRUE

replace(s, old, new) == CHOOSE r \in {replace_from(v, old, new, 0) : v \in {s}} : TRUE

\* s.upper() on the ASCII letters (the only cased characters of str(uuid))
upper(s) == [i \in 1..Len(s) |-> IF s[i] \in 97..122 THEN s[i] - 32 ELSE s[i]]

\* str(n) for an int n >= 0, as an f-string formats len(...)
RECURSIVE str_int(_)
str_int(n) == IF n < 10 THEN <<48 + n>> ELSE str_int(n \div 10) \o <<48 + (n % 10)>>

(***************************************************************************)
(* escape_xml (lines 10-18)                                                *)
(***************************************************************************)
Amp == <<38>>
AmpEntity == <<38, 97, 109, 112, 59>>
Lt == <<60>>
LtEntity == <<38, 108, 116, 59>>
Gt == <<62>>
GtEntity == <<38, 103, 116, 59>>

\* mutant: '&' replaced last, so the ampersands of '&lt;' and '&gt;' are escaped again
escape_xml_amp_last(text) ==
    LET t1 == replace(text, Lt, LtEntity)
        t2 == replace(t1, Gt, GtEntity)
    IN  replace(t2, Amp, AmpEntity)

escape_xml(text) ==
    LET t1 == replace(text, Amp, AmpEntity)
        t2 == replace(t1, Lt, LtEntity)
    IN  replace(t2, Gt, GtEntity)

(***************************************************************************)
(* The file system the run finds, and read_file_content (lines 20-27)      *)
(***************************************************************************)
\* '1c_processing/Module/Module.bsl'
ModulePath == <<49, 99, 95, 112, 114, 111, 99, 101, 115, 115, 105, 110, 103, 47, 77, 111, 100, 117, 108, 101, 47, 77, 111, 100, 117, 108, 101, 46, 98, 115, 108>>
\* '1c_module_extensions.bsl'
ExtensionsPath == <<49, 99, 95, 109, 111, 100, 117, 108, 101, 95, 101, 120, 116, 101, 110, 115, 105, 111, 110, 115, 46, 98, 115, 108>>
\* '1c_export_functions.txt'
ExportPath == <<49, 99, 95, 101, 120, 112, 111, 114, 116, 95, 102, 117, 110, 99, 116, 105, 111, 110, 115, 46, 116, 120, 116>>

Paths == {ModulePath, ExtensionsPath, ExportPath}

\* a file open() and f.read() succeed on, with its decoded text
Readable(t) == [readable |-> TRUE, content |-> t, error |-> <<>>]
\* a file on which open() or f.read() raises; e is str(exception)
Unreadable(e) == [readable |-> FALSE, content |-> <<>>, error |-> e]

\* f"Ошибка чтения файла {filepath}: {e}"
ReadErrorPrefix == <<1054, 1096, 1080, 1073, 1082, 1072, 32, 1095, 1090, 1077, 1085, 1080, 1103, 32, 1092, 1072, 1081, 1083, 1072, 32>>
ColonSpace == <<58, 32>>
ReadErrorLine(filepath, e) == ReadErrorPrefix \o filepath \o ColonSpace \o e

\* mutant: the except branch returns the message instead of ""
read_file_content_returns_error(files, filepath) ==
    IF files[filepath].readable
    THEN [value |-> files[filepath].content, printed |-> <<>>]
    ELSE [value |-> files[filepath].error,
          printed |-> <<ReadErrorLine(filepath, files[filepath].error)>>]

\* the returned str and the lines printed on the way
read_file_content(files, filepath) ==
    IF files[filepath].readable
    THEN [value |-> files[filepath].content, printed |-> <<>>]
    ELSE [value |-> <<>>,
          printed |-> <<ReadErrorLine(filepath, files[filepath].error)>>]

(***************************************************************************)
(* Literals of create_1c_processing_xml (lines 29-121)                     *)
(***************************************************************************)
\* "#Область ПрограммныйИнтерфейс"
start_marker == <<35, 1054, 1073, 1083, 1072, 1089, 1090, 1100, 32, 1055, 1088, 1086, 1075, 1088, 1072, 1084, 1084, 1085, 1099, 1081, 1048, 1085, 1090, 1077, 1088, 1092, 1077, 1081, 1089>>
\* "#КонецОбласти"
end_marker == <<35, 1050, 1086, 1085, 1077, 1094, 1054, 1073, 1083, 1072, 1089, 1090, 1080>>
\* "\n\n"
BlankLine == <<10, 10>>
\* '1c_processing_export.xml'
output_file == <<49, 99, 95, 112, 114, 111, 99, 101, 115, 115, 105, 110, 103, 95, 101, 120, 112, 111, 114, 116, 46, 120, 109, 108>>
\* f"XML файл обработки создан: {output_file}"
CreatedPrefix == <<88, 77, 76, 32, 1092, 1072, 1081, 1083, 32, 1086, 1073, 1088, 1072, 1073, 1086, 1090, 1082, 1080, 32, 1089, 1086, 1079, 1076, 1072, 1085, 58, 32>>
\* f"UUID обработки: {processing_uuid}"
UuidPrefix == <<85, 85, 73, 68, 32, 1086, 1073, 1088, 1072, 1073, 1086, 1090, 1082, 1080, 58, 32>>
\* f"Размер модуля: {len(full_module_code)} символов"
SizePrefix == <<1056, 1072, 1079, 1084, 1077, 1088, 32, 1084, 1086, 1076, 1091, 1083, 1103, 58, 32>>
SizeSuffix == <<32, 1089, 1080, 1084, 1074, 1086, 1083, 1086, 1074>>

\* The f-string of lines 70-112 around its two fields: XmlPart1 {processing_uuid}
\* XmlPart2 {full_module_code} XmlPart3.
XmlPart1 ==
    <<
    \* <?xml version="1.0" encoding="UTF-8"?>\n
      60, 63, 120, 109, 108, 32, 118, 101, 114, 115, 105, 111, 110, 61, 34, 49, 46, 48, 34, 32
    , 101, 110, 99, 111, 100, 105, 110, 103, 61, 34, 85, 84, 70, 45, 56, 34, 63, 62, 10
    \* <MetaDataObject xmlns="http://v8.1c.ru/8.3/MDClasses" xmlns:app="http://v8.1c.ru/8.2/man
    \* aged-application/core" xmlns:cfg="http://v8.1c.ru/8.1/data/enterprise/current-config" xm
    \* lns:cmi="http://v8.1c.ru/8.2/managed-application/cmi" xmlns:ent="http://v8.1c.ru/8.1/dat
    \* a/enterprise/current-config" xmlns:lf="http://v8.1c.ru/8.2/managed-application/logform" 
    \* xmlns:style="http://v8.1c.ru/8.1/data/ui/style" xmlns:sys="http://v8.1c.ru/8.1/data/ui/f
    \* onts/system" xmlns:v8="http://v8.1c.ru/8.1/data/core" xmlns:v8ui="http://v8.1c.ru/8.1/da
    \* ta/ui" xmlns:web="http://v8.1c.ru/8.1/data/ui/colors/web" xmlns:win="http://v8.1c.ru/8.1
    \* /data/ui/colors/windows" xmlns:xen="http://v8.1c.ru/8.3/xcf/enums" xmlns:xpr="http://v8.
    \* 1c.ru/8.3/xcf/predef" xmlns:xr="http://v8.1c.ru/8.3/xcf/readable" xmlns:xs="http://www.w
    \* 3.org/2001/XMLSchema" xmlns:xsi="http://www.w3.org/2001/XMLSchema-instance" version="2.1
    \* 2">\n
    , 60, 77, 101, 116, 97, 68, 97, 116, 97, 79, 98, 106, 101, 99, 116, 32, 120, 109, 108, 110
    , 115, 61, 34, 104, 116, 116, 112, 58, 47, 47, 118, 56, 46, 49, 99, 46, 114, 117, 47, 56
    , 46, 51, 47, 77, 68, 67, 108, 97, 115, 115, 101, 115, 34, 32, 120, 109, 108, 110, 115, 58
    , 97, 112, 112, 61, 34, 104, 116, 116, 112, 58, 47, 47, 118, 56, 46, 49, 99, 46, 114, 117
    , 47, 56, 46, 50, 47, 109, 97, 110, 97, 103, 101, 100, 45, 97, 112, 112, 108, 105, 99, 97
    , 116, 105, 111, 110, 47, 99, 111, 114, 101, 34, 32, 120, 109, 108, 110, 115, 58, 99, 102, 103
    , 61, 34, 104, 116, 116, 112, 58, 47, 47, 118, 56, 46, 49, 99, 46, 114, 117, 47, 56, 46
    , 49, 47, 100, 97, 116, 97, 47, 101, 110, 116, 101, 114, 112, 114, 105, 115, 101, 47, 99, 117
    , 114, 114, 101, 110, 116, 45, 99, 111, 110, 102, 105, 103, 34, 32, 120, 109, 108, 110, 115, 58
    , 99, 109, 105, 61, 34, 104, 116, 116, 112, 58, 47, 47, 118, 56, 46, 49, 99, 46, 114, 117
    , 47, 56, 46, 50, 47, 109, 97, 110, 97, 103, 101, 100, 45, 97, 112, 112, 108, 105, 99, 97
    , 116, 105, 111, 110, 47, 99, 109, 105, 34, 32, 120, 109, 108, 110, 115, 58, 101, 110, 116, 61
    , 34, 104, 116, 116, 112, 58, 47, 47, 118, 56, 46, 49, 99, 46, 114, 117, 47, 56, 46, 49
    , 47, 100, 97, 116, 97, 47, 101, 110, 116, 101, 114, 112, 114, 105, 115, 101, 47, 99, 117, 114
    , 114, 101, 110, 116, 45, 99, 111, 110, 102, 105, 103, 34, 32, 120, 109, 108, 110, 115, 58, 108
    , 102, 61, 34, 104, 116, 116, 112, 58, 47, 47, 118, 56, 46, 49, 99, 46, 114, 117, 47, 56
    , 46, 50, 47, 109, 97, 110, 97, 103, 101, 100, 45, 97, 112, 112, 108, 105, 99, 97, 116, 105
    , 111, 110, 47, 108, 111, 103, 102, 111, 114, 109, 34, 32, 120, 109, 108, 110, 115, 58, 115, 116
    , 121, 108, 101, 61, 34, 104, 116, 116, 112, 58, 47, 47, 118, 56, 46, 49, 99, 46, 114, 117
    , 47, 56, 46, 49, 47, 100, 97, 116, 97, 47, 117, 105, 47, 115, 116, 121, 108, 101, 34, 32
    , 120, 109, 108, 110, 115, 58, 115, 121, 115, 61, 34, 104, 116, 116, 112, 58, 47, 47, 118, 56
    , 46, 49, 99, 46, 114, 117, 47, 56, 46, 49, 47, 100, 97, 116, 97, 47, 117, 105, 47, 102
    , 111, 110, 116, 115, 47, 115, 121, 115, 116, 101, 109, 34, 32, 120, 109, 108, 110, 115, 58, 118
    , 56, 61, 34, 104, 116, 116, 112, 58, 47, 47, 118, 56, 46, 49, 99, 46, 114, 117, 47, 56
    , 46, 49, 47, 100, 97, 116, 97, 47, 99, 111, 114, 101, 34, 32, 120, 109, 108, 110, 115, 58
    , 118, 56, 117, 105, 61, 34, 104, 116, 116, 112, 58, 47, 47, 118, 56, 46, 49, 99, 46, 114
    , 117, 47, 56, 46, 49, 47, 100, 97, 116, 97, 47, 117, 105, 34, 32, 120, 109, 108, 110, 115
    , 58, 119, 101, 98, 61, 34, 104, 116, 116, 112, 58, 47, 47, 118, 56, 46, 49, 99, 46, 114
    , 117, 47, 56, 46, 49, 47, 100, 97, 116, 97, 47, 117, 105, 47, 99, 111, 108, 111, 114, 115
    , 47, 119, 101, 98, 34, 32, 120, 109, 108, 110, 115, 58, 119, 105, 110, 61, 34, 104, 116, 116
    , 112, 58, 47, 47, 118, 56, 46, 49, 99, 46, 114, 117, 47, 56, 46, 49, 47, 100, 97, 116
    , 97, 47, 117, 105, 47, 99, 111, 108, 111, 114, 115, 47, 119, 105, 110, 100, 111, 119, 115, 34
    , 32, 120, 109, 108, 110, 115, 58, 120, 101, 110, 61, 34, 104, 116, 116, 112, 58, 47, 47, 118
    , 56, 46, 49, 99, 46, 114, 117, 47, 56, 46, 51, 47, 120, 99, 102, 47, 101, 110, 117, 109
    , 115, 34, 32, 120, 109, 108, 110, 115, 58, 120, 112, 114, 61, 34, 104, 116, 116, 112, 58, 47
    , 47, 118, 56, 46, 49, 99, 46, 114, 117, 47, 56, 46, 51, 47, 120, 99, 102, 47, 112, 114
    , 101, 100, 101, 102, 34, 32, 120, 109, 108, 110, 115, 58, 120, 114, 61, 34, 104, 116, 116, 112
    , 58, 47, 47, 118, 56, 46, 49, 99, 46, 114, 117, 47, 56, 46, 51, 47, 120, 99, 102, 47
    , 114, 101, 97, 100, 97, 98, 108, 101, 34, 32, 120, 109, 108, 110, 115, 58, 120, 115, 61, 34
    , 104, 116, 116, 112, 58, 47, 47, 119, 119, 119, 46, 119, 51, 46, 111, 114, 103, 47, 50, 48
    , 48, 49, 47, 88, 77, 76, 83, 99, 104, 101, 109, 97, 34, 32, 120, 109, 108, 110, 115, 58
    , 120, 115, 105, 61, 34, 104, 116, 116, 112, 58, 47, 47, 119, 119, 119, 46, 119, 51, 46, 111
    , 114, 103, 47, 50, 48, 48, 49, 47, 88, 77, 76, 83, 99, 104, 101, 109, 97, 45, 105, 110
    , 115, 116, 97, 110, 99, 101, 34, 32, 118, 101, 114, 115, 105, 111, 110, 61, 34, 50, 46, 49
    , 50, 34, 62, 10
    \*   <DataProcessor>\n
    , 32, 32, 60, 68, 97, 116, 97, 80, 114, 111, 99, 101, 115, 115, 111, 114, 62, 10
    \*     <uuid>
    , 32, 32, 32, 32, 60, 117, 117, 105, 100, 62
    >>

XmlPart2 ==
    <<
    \* </uuid>\n
      60, 47, 117, 117, 105, 100, 62, 10
    \*     <name>ВыгрузкаДанныхВСервис</name>\n
    , 32, 32, 32, 32, 60, 110, 97, 109, 101, 62, 1042, 1099, 1075, 1088, 1091, 1079, 1082, 1072, 1044, 1072
    , 1085, 1085, 1099, 1093, 1042, 1057, 1077, 1088, 1074, 1080, 1089, 60, 47, 110, 97, 109, 101, 62, 10
    \*     <synonym>\n
    , 32, 32, 32, 32, 60, 115, 121, 110, 111, 110, 121, 109, 62, 10
    \*       <key>ru</key>\n
    , 32, 32, 32, 32, 32, 32, 60, 107, 101, 121, 62, 114, 117, 60, 47, 107, 101, 121, 62, 10
    \*       <value>Выгрузка данных в сервис нормализации</value>\n
    , 32, 32, 32, 32, 32, 32, 60, 118, 97, 108, 117, 101, 62, 1042, 1099, 1075, 1088, 1091, 1079, 1082
    , 1072, 32, 1076, 1072, 1085, 1085, 1099, 1093, 32, 1074, 32, 1089, 1077, 1088, 1074, 1080, 1089, 32, 1085, 1086
    , 1088, 1084, 1072, 1083, 1080, 1079, 1072, 1094, 1080, 1080, 60, 47, 118, 97, 108, 117, 101, 62, 10
    \*     </synonym>\n
    , 32, 32, 32, 32, 60, 47, 115, 121, 110, 111, 110, 121, 109, 62, 10
    \*     <comment>Обработка для выгрузки данных из 1С в сервис нормализации и анализа через H
    \* TTP</comment>\n
    , 32, 32, 32, 32, 60, 99, 111, 109, 109, 101, 110, 116, 62, 1054, 1073, 1088, 1072, 1073, 1086, 1090
    , 1082, 1072, 32, 1076, 1083, 1103, 32, 1074, 1099, 1075, 1088, 1091, 1079, 1082, 1080, 32, 1076, 1072, 1085, 1085
    , 1099, 1093, 32, 1080, 1079, 32, 49, 1057, 32, 1074, 32, 1089, 1077, 1088, 1074, 1080, 1089, 32, 1085, 1086
    , 1088, 1084, 1072, 1083, 1080, 1079, 1072, 1094, 1080, 1080, 32, 1080, 32, 1072, 1085, 1072, 1083, 1080, 1079, 1072
    , 32, 1095, 1077, 1088, 1077, 1079, 32, 72, 84, 84, 80, 60, 47, 99, 111, 109, 109, 101, 110, 116
    , 62, 10
    \*     <module>\n
    , 32, 32, 32, 32, 60, 109, 111, 100, 117, 108, 101, 62, 10
    \*       <text><![CDATA[
    , 32, 32, 32, 32, 32, 32, 60, 116, 101, 120, 116, 62, 60, 33, 91, 67, 68, 65, 84, 65
    , 91
    >>

XmlPart3 ==
    <<
    \* ]]></text>\n
      93, 93, 62, 60, 47, 116, 101, 120, 116, 62, 10
    \*     </module>\n
    , 32, 32, 32, 32, 60, 47, 109, 111, 100, 117, 108, 101, 62, 10
    \*     <forms>\n
    , 32, 32, 32, 32, 60, 102, 111, 114, 109, 115, 62, 10
    \*       <form>\n
    , 32, 32, 32, 32, 32, 32, 60, 102, 111, 114, 109, 62, 10
    \*         <name>Форма</name>\n
    , 32, 32, 32, 32, 32, 32, 32, 32, 60, 110, 97, 109, 101, 62, 1060, 1086, 1088, 1084, 1072, 60
    , 47, 110, 97, 109, 101, 62, 10
    \*         <synonym>\n
    , 32, 32, 32, 32, 32, 32, 32, 32, 60, 115, 121, 110, 111, 110, 121, 109, 62, 10
    \*           <key>ru</key>\n
    , 32, 32, 32, 32, 32, 32, 32, 32, 32, 32, 60, 107, 101, 121, 62, 114, 117, 60, 47, 107
    , 101, 121, 62, 10
    \*           <value>Форма</value>\n
    , 32, 32, 32, 32, 32, 32, 32, 32, 32, 32, 60, 118, 97, 108, 117, 101, 62, 1060, 1086, 1088
    , 1084, 1072, 60, 47, 118, 97, 108, 117, 101, 62, 10
    \*         </synonym>\n
    , 32, 32, 32, 32, 32, 32, 32, 32, 60, 47, 115, 121, 110, 111, 110, 121, 109, 62, 10
    \*         <module>\n
    , 32, 32, 32, 32, 32, 32, 32, 32, 60, 109, 111, 100, 117, 108, 101, 62, 10
    \*           <text><![CDATA[&НаКлиенте\n
    , 32, 32, 32, 32, 32, 32, 32, 32, 32, 32, 60, 116, 101, 120, 116, 62, 60, 33, 91, 67
    , 68, 65, 84, 65, 91, 38, 1053, 1072, 1050, 1083, 1080, 1077, 1085, 1090, 1077, 10
    \* Процедура ПриСозданииНаСервере(Отказ, СтандартнаяОбработка)\n
    , 1055, 1088, 1086, 1094, 1077, 1076, 1091, 1088, 1072, 32, 1055, 1088, 1080, 1057, 1086, 1079, 1076, 1072, 1085, 1080
    , 1080, 1053, 1072, 1057, 1077, 1088, 1074, 1077, 1088, 1077, 40, 1054, 1090, 1082, 1072, 1079, 44, 32, 1057, 1090
    , 1072, 1085, 1076, 1072, 1088, 1090, 1085, 1072, 1103, 1054, 1073, 1088, 1072, 1073, 1086, 1090, 1082, 1072, 41, 10
    \* \t\n
    , 9, 10
    \* \t// Устанавливаем значения по умолчанию\n
    , 9, 47, 47, 32, 1059, 1089, 1090, 1072, 1085, 1072, 1074, 1083, 1080, 1074, 1072, 1077, 1084, 32, 1079, 1085
    , 1072, 1095, 1077, 1085, 1080, 1103, 32, 1087, 1086, 32, 1091, 1084, 1086, 1083, 1095, 1072, 1085, 1080, 1102, 10
    \* \tЕсли Объект.АдресСервера = "" Тогда\n
    , 9, 1045, 1089, 1083, 1080, 32, 1054, 1073, 1098, 1077, 1082, 1090, 46, 1040, 1076, 1088, 1077, 1089, 1057, 1077
    , 1088, 1074, 1077, 1088, 1072, 32, 61, 32, 34, 34, 32, 1058, 1086, 1075, 1076, 1072, 10
    \* \t\tОбъект.АдресСервера = "http://localhost:9999";\n
    , 9, 9, 1054, 1073, 1098, 1077, 1082, 1090, 46, 1040, 1076, 1088, 1077, 1089, 1057, 1077, 1088, 1074, 1077, 1088
    , 1072, 32, 61, 32, 34, 104, 116, 116, 112, 58, 47, 47, 108, 111, 99, 97, 108, 104, 111, 115
    , 116, 58, 57, 57, 57, 57, 34, 59, 10
    \* \tКонецЕсли;\n
    , 9, 1050, 1086, 1085, 1077, 1094, 1045, 1089, 1083, 1080, 59, 10
    \* \t\n
    , 9, 10
    \* \tЕсли Объект.РазмерПакета = 0 Тогда\n
    , 9, 1045, 1089, 1083, 1080, 32, 1054, 1073, 1098, 1077, 1082, 1090, 46, 1056, 1072, 1079, 1084, 1077, 1088, 1055
    , 1072, 1082, 1077, 1090, 1072, 32, 61, 32, 48, 32, 1058, 1086, 1075, 1076, 1072, 10
    \* \t\tОбъект.РазмерПакета = 50;\n
    , 9, 9, 1054, 1073, 1098, 1077, 1082, 1090, 46, 1056, 1072, 1079, 1084, 1077, 1088, 1055, 1072, 1082, 1077, 1090
    , 1072, 32, 61, 32, 53, 48, 59, 10
    \* \tКонецЕсли;\n
    , 9, 1050, 1086, 1085, 1077, 1094, 1045, 1089, 1083, 1080, 59, 10
    \* \t\n
    , 9, 10
    \* \tЕсли Объект.ИспользоватьПакетнуюВыгрузку = Неопределено Тогда\n
    , 9, 1045, 1089, 1083, 1080, 32, 1054, 1073, 1098, 1077, 1082, 1090, 46, 1048, 1089, 1087, 1086, 1083, 1100, 1079
    , 1086, 1074, 1072, 1090, 1100, 1055, 1072, 1082, 1077, 1090, 1085, 1091, 1102, 1042, 1099, 1075, 1088, 1091, 1079, 1082
    , 1091, 32, 61, 32, 1053, 1077, 1086, 1087, 1088, 1077, 1076, 1077, 1083, 1077, 1085, 1086, 32, 1058, 1086, 1075
    , 1076, 1072, 10
    \* \t\tОбъект.ИспользоватьПакетнуюВыгрузку = Истина;\n
    , 9, 9, 1054, 1073, 1098, 1077, 1082, 1090, 46, 1048, 1089, 1087, 1086, 1083, 1100, 1079, 1086, 1074, 1072, 1090
    , 1100, 1055, 1072, 1082, 1077, 1090, 1085, 1091, 1102, 1042, 1099, 1075, 1088, 1091, 1079, 1082, 1091, 32, 61, 32
    , 1048, 1089, 1090, 1080, 1085, 1072, 59, 10
    \* \tКонецЕсли;\n
    , 9, 1050, 1086, 1085, 1077, 1094, 1045, 1089, 1083, 1080, 59, 10
    \* \t\n
    , 9, 10
    \* КонецПроцедуры]]></text>\n
    , 1050, 1086, 1085, 1077, 1094, 1055, 1088, 1086, 1094, 1077, 1076, 1091, 1088, 1099, 93, 93, 62, 60, 47, 116
    , 101, 120, 116, 62, 10
    \*         </module>\n
    , 32, 32, 32, 32, 32, 32, 32, 32, 60, 47, 109, 111, 100, 117, 108, 101, 62, 10
    \*       </form>\n
    , 32, 32, 32, 32, 32, 32, 60, 47, 102, 111, 114, 109, 62, 10
    \*     </forms>\n
    , 32, 32, 32, 32, 60, 47, 102, 111, 114, 109, 115, 62, 10
    \*   </DataProcessor>\n
    , 32, 32, 60, 47, 68, 97, 116, 97, 80, 114, 111, 99, 101, 115, 115, 111, 114, 62, 10
    \* </MetaDataObject>
    , 60, 47, 77, 101, 116, 97, 68, 97, 116, 97, 79, 98, 106, 101, 99, 116, 62
    >>

(***************************************************************************)
(* uuid.uuid4() and str(uuid) (line 67)                                    *)
(***************************************************************************)
\* 128-bit values uuid4() may return, as 32 hexadecimal digits (version 4, variant 10xx)
Uuid4Samples ==
    { <<0, 1, 2, 3, 4, 5, 6, 7,  8, 9, 10, 11,  4, 12, 13, 14,  10, 15, 0, 1,
        2, 3, 4, 5, 6, 7, 8, 9, 10, 11, 12, 13>>,
      <<9, 8, 7, 6, 5, 4, 3, 2,  1, 0, 1, 2,  4, 3, 4, 5,  8, 6, 7, 8,
        9, 0, 1, 2, 3, 4, 5, 6, 7, 8, 9, 0>> }

HexDigit(n) == IF n < 10 THEN 48 + n ELSE 87 + n
Hyphen == <<45>>

\* str(u): lowercase hexadecimal in groups of 8-4-4-4-12 joined by '-'
str_uuid(u) ==
    LET hex == [i \in 1..32 |-> HexDigit(u[i])]
    IN  SubSeq(hex, 1, 8) \o Hyphen \o SubSeq(hex, 9, 12) \o Hyphen
        \o SubSeq(hex, 13, 16) \o Hyphen \o SubSeq(hex, 17, 20) \o Hyphen
        \o SubSeq(hex, 21, 32)

\* mutant: .upper() left out
format_uuid_lowercase(u) == replace(str_uuid(u), Hyphen, <<>>)

\* str(uuid.uuid4()).upper().replace('-', '')
format_uuid(u) == replace(upper(str_uuid(u)), Hyphen, <<>>)

(***************************************************************************)
(* State                                                                   *)
(***************************************************************************)
VARIABLES
    files,                  \* the three input files as the run finds them
    out_file,               \* '1c_processing_export.xml' on disk
    console,                \* the lines printed so far
    pc,                     \* the statement the run is at
    steps,                  \* the statements executed so far, in order
    uuid_calls,             \* number of uuid.uuid4() calls so far
    module_code,
    extensions_code,
    export_functions_code,
    full_module_code,
    escaped_module_code,
    processing_uuid,
    xml_content

vars == <<files, out_file, console, pc, steps, uuid_calls, module_code,
          extensions_code, export_functions_code, full_module_code,
          escaped_module_code, processing_uuid, xml_content>>

locals == <<module_code, extensions_code, export_functions_code, full_module_code,
            escaped_module_code, processing_uuid, xml_content>>

(***************************************************************************)
(* Inputs                                                                  *)
(***************************************************************************)
\* str(e) of a FileNotFoundError and of a UnicodeDecodeError
ErrNoSuchFile == <<91, 69, 114, 114, 110, 111, 32, 50, 93, 32, 78, 111, 32, 115, 117, 99, 104, 32, 102, 105, 108, 101, 32, 111, 114, 32, 100, 105, 114, 101, 99, 116, 111, 114, 121>>
ErrDecode == <<39, 117, 116, 102, 45, 56, 39, 32, 99, 111, 100, 101, 99, 32, 99, 97, 110, 39, 116, 32, 100, 101, 99, 111, 100, 101, 32, 98, 121, 116, 101, 32, 48, 120, 102, 102>>

\* & < > " ]
Alphabet == {38, 60, 62, 34, 93}

AllTexts(alphabet, n) == UNION {[1..k -> alphabet] : k \in 0..n}

RECURSIVE Concat(_)
Concat(ss) == IF ss = <<>> THEN <<>> ELSE Head(ss) \o Concat(Tail(ss))

\* an export-functions text is built from the two markers and '#', the character
\* both markers begin with
Pieces == {start_marker, end_marker, <<35>>}
PieceTexts(n) == {Concat(ps) : ps \in AllTexts(Pieces, n)}

\* primary files: missing, 'X', the escaper's example, a text ending in ']]', a text
\* with the control character U+0001, a text with an entity and a CDATA end
PrimarySamples ==
    { Unreadable(ErrNoSuchFile),
      Readable(<<88>>),
      Readable(<<97, 32, 38, 32, 98, 32, 60, 32, 99, 32, 62, 32, 100>>),
      Readable(<<93, 93>>),
      Readable(<<1>>),
      Readable(<<38, 108, 116, 59, 93, 93, 62>>) }

\* extensions files: missing, empty, '>"t"'
ExtensionsSamples ==
    { Unreadable(ErrNoSuchFile), Readable(<<>>), Readable(<<62, 34, 116, 34>>) }

\* export files: undecodable, or any text of up to MaxPieces pieces
ExportSamples ==
    {Unreadable(ErrDecode)} \cup {Readable(t) : t \in PieceTexts(MaxPieces)}

FileSystem(primary, extensions, export) ==
    [p \in Paths |-> IF p = ModulePath THEN primary
                     ELSE IF p = ExtensionsPath THEN extensions ELSE export]

\* every primary text over Alphabet alone; every export text beside a present or
\* missing primary and extensions file; every sample primary and extensions file
\* beside a missing or a one-region export file
InputFileSystems ==
    {FileSystem(Readable(t), Unreadable(ErrNoSuchFile), Unreadable(ErrNoSuchFile)) :
        t \in AllTexts(Alphabet, MaxPrimaryLen)}
    \cup
    {FileSystem(p, x, e) :
        p \in {Unreadable(ErrNoSuchFile), Readable(<<88>>)},
        x \in {Unreadable(ErrNoSuchFile), Readable(<<62, 34, 116, 34>>)},
        e \in ExportSamples}
    \cup
    {FileSystem(p, x, e) :
        p \in PrimarySamples, x \in ExtensionsSamples,
        e \in {Unreadable(ErrDecode), Readable(start_marker \o end_marker)}}

Init ==
    /\ files \in InputFileSystems
    /\ out_file = [exists |-> FALSE, content |-> <<>>]
    /\ console = <<>>
    /\ pc = "read_module"
    /\ steps = <<>>
    /\ uuid_calls = 0
    /\ module_code = <<>>
    /\ extensions_code = <<>>
    /\ export_functions_code = <<>>
    /\ full_module_code = <<>>
    /\ escaped_module_code = <<>>
    /\ processing_uuid = <<>>
    /\ xml_content = <<>>

(***************************************************************************)
(* create_1c_processing_xml, statement by statement                        *)
(***************************************************************************)
Goto(from, to) ==
    /\ pc = from
    /\ pc' = to
    /\ steps' = Append(steps, from)

\* line 33
ReadModule ==
    /\ Goto("read_module", "read_extensions")
    /\ LET r == read_file_content(files, ModulePath)
       IN  /\ module_code' = r.value
           /\ console' = console \o r.printed
    /\ UNCHANGED <<files, out_file, uuid_calls, extensions_code, export_functions_code,
                   full_module_code, escaped_module_code, processing_uuid, xml_content>>

\* line 36
ReadExtensions ==
    /\ Goto("read_extensions", "read_export")
    /\ LET r == read_file_content(files, ExtensionsPath)
       IN  /\ extensions_code' = r.value
           /\ console' = console \o r.printed
    /\ UNCHANGED <<files, out_file, uuid_calls, module_code, export_functions_code,
                   full_module_code, escaped_module_code, processing_uuid, xml_content>>

\* line 39
ReadExport ==
    /\ Goto("read_export", "init_full")
    /\ LET r == read_file_content(files, ExportPath)
       IN  /\ export_functions_code' = r.value
           /\ console' = console \o r.printed
    /\ UNCHANGED <<files, out_file, uuid_calls, module_code, extensions_code,
                   full_module_code, escaped_module_code, processing_uuid, xml_content>>

\* line 43
InitFull ==
    /\ Goto("init_full", "append_export")
    /\ full_module_code' = module_code
    /\ UNCHANGED <<files, out_file, console, uuid_calls, module_code, extensions_code,
                   export_functions_code, escaped_module_code, processing_uuid,
                   xml_content>>

\* mutant: the slice stops at end_pos, leaving the end marker out
export_appended_without_end_marker(code) ==
    IF Len(code) > 0
    THEN LET start_pos == find(code, start_marker, 0)
         IN  IF start_pos >= 0
             THEN LET end_pos == find(code, end_marker, start_pos + Len(start_marker))
                  IN  IF end_pos >= 0
                      THEN BlankLine \o Slice(code, start_pos, end_pos)
                      ELSE <<>>
             ELSE <<>>
    ELSE <<>>

\* mutant: without an end marker the region runs to the end of the text
export_appended_partial(code) ==
    IF Len(code) > 0
    THEN LET start_pos == find(code, start_marker, 0)
         IN  IF start_pos >= 0
             THEN LET end_pos == find(code, end_marker, start_pos + Len(start_marker))
                  IN  IF end_pos >= 0
                      THEN BlankLine \o Slice(code, start_pos, end_pos + Len(end_marker))
                      ELSE BlankLine \o Slice(code, start_pos, Len(code))
             ELSE <<>>
    ELSE <<>>

\* lines 47-57: what the if-block appends to full_module_code
export_appended(code) ==
    IF Len(code) > 0
    THEN LET start_pos == find(code, start_marker, 0)
         IN  IF start_pos >= 0
             THEN LET end_pos == find(code, end_marker, start_pos + Len(start_marker))
                  IN  IF end_pos >= 0
                      THEN LET program_interface_code ==
                                   Slice(code, start_pos, end_pos + Len(end_marker))
                           IN  BlankLine \o program_interface_code
                      ELSE <<>>
             ELSE <<>>
    ELSE <<>>

AppendExport ==
    /\ Goto("append_export", "append_extensions")
    /\ full_module_code' = full_module_code \o export_appended(export_functions_code)
    /\ UNCHANGED <<files, out_file, console, uuid_calls, module_code, extensions_code,
                   export_functions_code, escaped_module_code, processing_uuid,
                   xml_content>>

\* mutant: the extensions put before the text assembled so far
with_extensions_first(full, extensions) ==
    IF Len(extensions) > 0 THEN extensions \o BlankLine \o full ELSE full

\* lines 60-61: full_module_code after the if-block
with_extensions(full, extensions) ==
    IF Len(extensions) > 0 THEN full \o BlankLine \o extensions ELSE full

AppendExtensions ==
    /\ Goto("append_extensions", "escape")
    /\ full_module_code' = with_extensions(full_module_code, extensions_code)
    /\ UNCHANGED <<files, out_file, console, uuid_calls, module_code, extensions_code,
                   export_functions_code, escaped_module_code, processing_uuid,
                   xml_content>>

\* line 64
Escape ==
    /\ Goto("escape", "uuid")
    /\ escaped_module_code' = escape_xml(full_module_code)
    /\ UNCHANGED <<files, out_file, console, uuid_calls, module_code, extensions_code,
                   export_functions_code, full_module_code, processing_uuid,
                   xml_content>>

\* line 67
GenerateUuid ==
    /\ Goto("uuid", "render")
    /\ \E u \in Uuid4Samples : processing_uuid' = format_uuid(u)
    /\ uuid_calls' = uuid_calls + 1
    /\ UNCHANGED <<files, out_file, console, module_code, extensions_code,
                   export_functions_code, full_module_code, escaped_module_code,
                   xml_content>>

\* mutant: the template's ']]>' after the module text is missing
fstring_xml_content_unclosed ==
    XmlPart1 \o processing_uuid \o XmlPart2 \o full_module_code
    \o SubSeq(XmlPart3, 4, Len(XmlPart3))

\* lines 70-112: the value of the f-string
fstring_xml_content ==
    XmlPart1 \o processing_uuid \o XmlPart2 \o full_module_code \o XmlPart3

Render ==
    /\ Goto("render", "write")
    /\ xml_content' = fstring_xml_content
    /\ UNCHANGED <<files, out_file, console, uuid_calls, module_code, extensions_code,
                   export_functions_code, full_module_code, escaped_module_code,
                   processing_uuid>>

\* mutant: a failed write is caught and the run goes on to the summary
WriteOutput_failure_caught ==
    /\ pc = "write"
    /\ steps' = Append(steps, "write")
    /\ \/ out_file' = [exists |-> TRUE, content |-> xml_content]
       \/ out_file' = out_file
       \/ out_file' = [exists |-> TRUE, content |-> <<>>]
    /\ pc' = "print_created"
    /\ UNCHANGED <<files, console, uuid_calls, locals>>

\* lines 115-117: open(output_file, 'w') and f.write(xml_content), which may raise;
\* nothing catches the exception
WriteOutput ==
    /\ pc = "write"
    /\ steps' = Append(steps, "write")
    /\ \/ /\ out_file' = [exists |-> TRUE, content |-> xml_content]
          /\ pc' = "print_created"
       \/ /\ out_file' = out_file                       \* open() raised
          /\ pc' = "crashed"
       \/ /\ out_file' = [exists |-> TRUE, content |-> <<>>]   \* write raised after 'w'
          /\ pc' = "crashed"
    /\ UNCHANGED <<files, console, uuid_calls, locals>>

\* line 119
PrintCreated ==
    /\ Goto("print_created", "print_uuid")
    /\ console' = Append(console, CreatedPrefix \o output_file)
    /\ UNCHANGED <<files, out_file, uuid_calls, locals>>

\* line 120
PrintUuid ==
    /\ Goto("print_uuid", "print_size")
    /\ console' = Append(console, UuidPrefix \o processing_uuid)
    /\ UNCHANGED <<files, out_file, uuid_calls, locals>>

\* mutant: the length printed is that of the escaped text
PrintSize_of_escaped ==
    /\ Goto("print_size", "done")
    /\ console' = Append(console, SizePrefix \o str_int(Len(escaped_module_code))
                                  \o SizeSuffix)
    /\ UNCHANGED <<files, out_file, uuid_calls, locals>>

\* line 121
PrintSize ==
    /\ Goto("print_size", "done")
    /\ console' = Append(console, SizePrefix \o str_int(Len(full_module_code))
                                  \o SizeSuffix)
    /\ UNCHANGED <<files, out_file, uuid_calls, locals>>

Next ==
    \/ ReadModule
    \/ ReadExtensions
    \/ ReadExport
    \/ InitFull
    \/ AppendExport
    \/ AppendExtensions
    \/ Escape
    \/ GenerateUuid
    \/ Render
    \/ WriteOutput
    \/ PrintCreated
    \/ PrintUuid
    \/ PrintSize

Spec == Init /\ [][Next]_vars

(***************************************************************************)
(* Vocabulary of the properties                                            *)
(***************************************************************************)
Executed(step) == \E i \in 1..Len(steps) : steps[i] = step

Min(S) == CHOOSE i \in S : \A k \in S : i <= k

StartsWith(s, p) == Len(s) >= Len(p) /\ SubSeq(s, 1, Len(p)) = p
EndsWith(s, p) == Len(s) >= Len(p) /\ SubSeq(s, Len(s) - Len(p) + 1, Len(s)) = p
Contains(s, sub) == \E i \in 0..(Len(s) - Len(sub)) : SubSeq(s, i + 1, i + Len(sub)) = sub

\* the text a file contributes: its content, or nothing when it cannot be read
FragmentOf(f) == IF f.readable THEN f.content ELSE <<>>
PrimaryText == FragmentOf(files[ModulePath])
SecondaryText == FragmentOf(files[ExportPath])
TertiaryText == FragmentOf(files[ExtensionsPath])

\* 0-based indices at which the markers occur in s
StartOccurrences(s) ==
    {i \in 0..Len(s) : i + Len(start_marker) <= Len(s)
                       /\ SubSeq(s, i + 1, i + Len(start_marker)) = start_marker}
EndOccurrences(s) ==
    {i \in 0..Len(s) : i + Len(end_marker) <= Len(s)
                       /\ SubSeq(s, i + 1, i + Len(end_marker)) = end_marker}
\* the end-marker occurrences after the end of the first start-marker occurrence
EndsAfterFirstStart(s) ==
    {j \in EndOccurrences(s) : j >= Min(StartOccurrences(s)) + Len(start_marker)}
MarkerPair(s) == StartOccurrences(s) # {} /\ EndsAfterFirstStart(s) # {}
\* from the first start marker through the first end marker after it
MarkedRegion(s) ==
    SubSeq(s, Min(StartOccurrences(s)) + 1, Min(EndsAfterFirstStart(s)) + Len(end_marker))

\* the parts of the module text in their order, and the parts joined by blank lines
ModuleParts ==
    <<PrimaryText>>
    \o (IF MarkerPair(SecondaryText) THEN <<MarkedRegion(SecondaryText)>> ELSE <<>>)
    \o (IF TertiaryText # <<>> THEN <<TertiaryText>> ELSE <<>>)
RECURSIVE JoinBlankLine(_)
JoinBlankLine(parts) ==
    IF Len(parts) = 1 THEN parts[1]
    ELSE JoinBlankLine(SubSeq(parts, 1, Len(parts) - 1)) \o <<10, 10>> \o parts[Len(parts)]

TertiarySuffix == IF TertiaryText # <<>> THEN <<10, 10>> \o TertiaryText ELSE <<>>

(***************************************************************************)
(* C2: when the secondary text holds the start marker and an end marker    *)
(* after the end of its first occurrence, the module text after the        *)
(* secondary text has been processed (line 57) is the primary text, two    *)
(* newlines, and exactly the stretch from that first start marker through  *)
(* the first end marker after it; the finished module text begins with     *)
(* exactly this, and only the tertiary part (C4) can follow it.            *)
(***************************************************************************)
C2_RegionAppended ==
    (Executed("append_export") /\ MarkerPair(SecondaryText)) =>
        LET region == MarkedRegion(SecondaryText)
            expected == PrimaryText \o <<10, 10>> \o region
        IN  /\ StartsWith(region, start_marker)
            /\ EndsWith(region, end_marker)
            /\ IF Executed("append_extensions")
               THEN full_module_code = expected \o TertiarySuffix
               ELSE full_module_code = expected

\* a secondary text holding more than the region has been processed
C2_Witness ==
    /\ pc = "append_extensions"
    /\ MarkerPair(SecondaryText)
    /\ SecondaryText # MarkedRegion(SecondaryText)
    /\ Len(PrimaryText) > 0
    /\ full_module_code = PrimaryText \o <<10, 10>> \o MarkedRegion(SecondaryText)

(***************************************************************************)
(* C3: when the secondary text has no start marker, or has one but no end  *)
(* marker after the end of its first occurrence, the module text is the    *)
(* one assembled without the secondary file: nothing of the secondary text *)
(* and no separator for it is appended.                                    *)
(***************************************************************************)
C3_NoPartialRegion ==
    (files[ExportPath].readable /\ ~MarkerPair(SecondaryText)) =>
        /\ (Executed("append_export") /\ ~Executed("append_extensions"))
              => full_module_code = PrimaryText
        /\ Executed("append_extensions")
              => full_module_code = PrimaryText \o TertiarySuffix

\* the only end marker precedes the start marker, and the assembly is finished
C3_Witness ==
    /\ Executed("append_extensions")
    /\ files[ExportPath].readable
    /\ StartOccurrences(SecondaryText) # {}
    /\ EndOccurrences(SecondaryText) # {}
    /\ ~MarkerPair(SecondaryText)
    /\ TertiaryText # <<>>
    /\ full_module_code = PrimaryText \o <<10, 10>> \o TertiaryText

PlacedModuleText(doc) ==
    SubSeq(doc, Len(XmlPart1) + Len(processing_uuid) + Len(XmlPart2) + 1,
           Len(doc) - Len(XmlPart3))
FramedByTemplate(doc) ==
    /\ StartsWith(doc, XmlPart1 \o processing_uuid \o XmlPart2)
    /\ EndsWith(doc, XmlPart3)
    /\ Len(doc) >= Len(XmlPart1) + Len(processing_uuid) + Len(XmlPart2) + Len(XmlPart3)

\* the value of a decimal numeral
RECURSIVE ParseDecimal(_)
ParseDecimal(ds) ==
    IF Len(ds) = 0 THEN 0
    ELSE 10 * ParseDecimal(SubSeq(ds, 1, Len(ds) - 1)) + (ds[Len(ds)] - 48)
IsNumeral(ds) == Len(ds) > 0 /\ \A i \in 1..Len(ds) : ds[i] \in 48..57

\* the number a "Размер модуля: N символов" line reports
IsSizeLine(line) ==
    /\ StartsWith(line, SizePrefix)
    /\ EndsWith(line, SizeSuffix)
    /\ Len(line) > Len(SizePrefix) + Len(SizeSuffix)
    /\ IsNumeral(SubSeq(line, Len(SizePrefix) + 1, Len(line) - Len(SizeSuffix)))
ReportedSize(line) ==
    ParseDecimal(SubSeq(line, Len(SizePrefix) + 1, Len(line) - Len(SizeSuffix)))

\* a file that contributes no text: unreadable or empty
NoText(f) == FragmentOf(f) = <<>>

EntityOf(c) ==
    IF c = 38 THEN <<38, 97, 109, 112, 59>>
    ELSE IF c = 60 THEN <<38, 108, 116, 59>>
    ELSE IF c = 62 THEN <<38, 103, 116, 59>>
    ELSE <<c>>
\* every character of s[lo..hi] replaced by EntityOf of it, in one pass
RECURSIVE EachEscaped(_, _, _)
EachEscaped(s, lo, hi) ==
    IF lo > hi THEN <<>>
    ELSE IF lo = hi THEN EntityOf(s[lo])
    ELSE LET mid == (lo + hi) \div 2
         IN  EachEscaped(s, lo, mid) \o EachEscaped(s, mid + 1, hi)

C6_EscapeXml ==
    Executed("escape") =>
        /\ escaped_module_code = EachEscaped(full_module_code, 1, Len(full_module_code))
        /\ \A i \in 1..Len(escaped_module_code) : escaped_module_code[i] \notin {60, 62}
        /\ full_module_code = <<97, 32, 38, 32, 98, 32, 60, 32, 99, 32, 62, 32, 100>>
              => escaped_module_code = <<97, 32, 38, 97, 109, 112, 59, 32, 98, 32, 38, 108, 116, 59, 32, 99, 32, 38, 103, 116, 59, 32, 100>>

\* 'a & b < c > d' has been escaped
C6_Witness ==
    /\ Executed("escape")
    /\ full_module_code = <<97, 32, 38, 32, 98, 32, 60, 32, 99, 32, 62, 32, 100>>
    /\ escaped_module_code = <<97, 32, 38, 97, 109, 112, 59, 32, 98, 32, 38, 108, 116, 59, 32, 99, 32, 38, 103, 116, 59, 32, 100>>

(***************************************************************************)
(* C1: the text standing in the document's module character-data block is  *)
(* escape_xml of the assembled module text.                                *)
(***************************************************************************)
C1_BlockIsEscaped ==
    Executed("render") => PlacedModuleText(xml_content) = escape_xml(full_module_code)

(***************************************************************************)
(* C8: one identifier is generated per run; it is 32 characters, each in   *)
(* 0-9 or A-F, and the same value stands in the document's uuid element    *)
(* (as rendered, and as written to the output file) and in the console's   *)
(* identifier line.                                                        *)
(***************************************************************************)
\* the lowest 0-based index >= from at which sub occurs in s, or -1
FirstAt(s, sub, from) ==
    LET at == {i \in from..(Len(s) - Len(sub)) : \A j \in 1..Len(sub) : s[i + j] = sub[j]}
    IN  IF at = {} THEN -1 ELSE Min(at)
\* the character content of the document's first <uuid> element
UuidOpenTag == <<60, 117, 117, 105, 100, 62>>
UuidCloseTag == <<60, 47, 117, 117, 105, 100, 62>>
UuidElementText(doc) ==
    LET open == FirstAt(doc, UuidOpenTag, 0)
        close == FirstAt(doc, UuidCloseTag, open + Len(UuidOpenTag))
    IN  SubSeq(doc, open + Len(UuidOpenTag) + 1, close)
UpperHex == (48..57) \cup (65..70)
\* the identifiers the console's "UUID обработки: ..." lines show
PrintedUuids ==
    {SubSeq(console[i], Len(UuidPrefix) + 1, Len(console[i])) :
        i \in {k \in 1..Len(console) : StartsWith(console[k], UuidPrefix)}}

C8_Identifier ==
    /\ uuid_calls <= 1
    /\ Executed("uuid") =>
          /\ uuid_calls = 1
          /\ Len(processing_uuid) = 32
          /\ \A i \in 1..Len(processing_uuid) : processing_uuid[i] \in UpperHex
    /\ pc = "write" =>
          /\ FirstAt(xml_content, UuidOpenTag, 0) >= 0
          /\ UuidElementText(xml_content) = processing_uuid
    /\ pc = "done" =>
          /\ out_file.exists
          /\ UuidElementText(out_file.content) = processing_uuid
    /\ Executed("print_uuid") => PrintedUuids = {processing_uuid}
    /\ ~Executed("print_uuid") => PrintedUuids = {}

\* a finished run whose identifier holds letters: written and printed alike
C8_Witness ==
    /\ pc = "done"
    /\ uuid_calls = 1
    /\ \E i \in 1..Len(processing_uuid) : processing_uuid[i] \in 65..70
    /\ UuidElementText(out_file.content) = processing_uuid
    /\ PrintedUuids = {processing_uuid}

(***************************************************************************)
(* C9: the steps run in the order reads, assembly, rendering, write,       *)
(* summary.  The three summary lines (output path, identifier, character   *)
(* count of the module text before escaping) are printed only after the    *)
(* write has succeeded; when the write fails the run ends there: no        *)
(* summary line is printed and nothing runs afterwards.                    *)
(***************************************************************************)
Phase(step) ==
    CASE step \in {"read_module", "read_extensions", "read_export"} -> 1
      [] step \in {"init_full", "append_export", "append_extensions"} -> 2
      [] step \in {"escape", "uuid"} -> 3
      [] step = "render" -> 4
      [] step = "write" -> 5
      [] step \in {"print_created", "print_uuid", "print_size"} -> 6
SummaryPrefixes == <<CreatedPrefix, UuidPrefix, SizePrefix>>
IsSummaryLine(line) == \E k \in 1..3 : StartsWith(line, SummaryPrefixes[k])
SummaryLines == SelectSeq(console, IsSummaryLine)
WriteSucceeded == out_file.exists /\ out_file.content = xml_content /\ pc # "crashed"

C9_Order ==
    /\ \A i, j \in 1..Len(steps) :
          i < j => (Phase(steps[i]) <= Phase(steps[j]) /\ steps[i] # steps[j])
    /\ Executed("init_full") =>
          \A s \in {"read_module", "read_extensions", "read_export"} : Executed(s)
    /\ Executed("render") =>
          \A s \in {"init_full", "append_export", "append_extensions"} : Executed(s)
    /\ Executed("write") => Executed("render")
    /\ SummaryLines # <<>> => (Executed("write") /\ WriteSucceeded)
    /\ pc = "crashed" =>
          /\ steps[Len(steps)] = "write"
          /\ SummaryLines = <<>>
          /\ ~ENABLED Next
    /\ pc = "done" =>
          /\ SummaryLines = <<CreatedPrefix \o output_file,
                              UuidPrefix \o processing_uuid,
                              SizePrefix \o str_int(Len(full_module_code)) \o SizeSuffix>>
          /\ ReportedSize(console[Len(console)]) = Len(full_module_code)
          /\ SubSeq(console, Len(console) - 2, Len(console)) = SummaryLines

\* the write failed after a read error had been printed: the run is over
C9_Witness ==
    /\ pc = "crashed"
    /\ Len(console) > 0
    /\ out_file.exists
    /\ out_file.content # xml_content

(***************************************************************************)
(* C7: a file whose read fails yields the empty string and one logged      *)
(* line; whichever files fail, the other files are still read and used,    *)
(* the run goes on to the write step and, the write succeeding, leaves the *)
(* document; the failed file counts as an absent fragment, adding no text  *)
(* and no separator.                                                       *)
(***************************************************************************)
ReadStepOf(path) ==
    IF path = ModulePath THEN "read_module"
    ELSE IF path = ExtensionsPath THEN "read_extensions" ELSE "read_export"
ValueRead(path) ==
    IF path = ModulePath THEN module_code
    ELSE IF path = ExtensionsPath THEN extensions_code ELSE export_functions_code
ErrorLinesFor(path) ==
    {k \in 1..Len(console) : StartsWith(console[k], ReadErrorPrefix \o path \o <<58, 32>>)}
\* the module text of the same run with every unreadable file replaced by an empty one
AssembledWithoutFailed ==
    with_extensions(PrimaryText \o export_appended(SecondaryText), TertiaryText)

C7_ReadFailures ==
    /\ \A path \in Paths :
          Executed(ReadStepOf(path)) =>
              /\ ValueRead(path) = FragmentOf(files[path])
              /\ Cardinality(ErrorLinesFor(path))
                    = (IF files[path].readable THEN 0 ELSE 1)
    /\ pc \notin {"done", "crashed"} => ENABLED Next
    /\ pc = "crashed" => Executed("write")
    /\ Executed("append_extensions") => full_module_code = AssembledWithoutFailed
    /\ pc \in {"print_created", "print_uuid", "print_size", "done"} =>
          /\ out_file.exists
          /\ out_file.content = XmlPart1 \o processing_uuid \o XmlPart2
                                \o AssembledWithoutFailed \o XmlPart3

\* the primary and the export file failed, the extensions file was read and used, and
\* the document was written
C7_Witness ==
    /\ pc = "done"
    /\ ~files[ModulePath].readable
    /\ ~files[ExportPath].readable
    /\ files[ExtensionsPath].readable /\ TertiaryText # <<>>
    /\ full_module_code = <<10, 10>> \o TertiaryText
    /\ Len(console) = 5
    /\ out_file.exists

(***************************************************************************)
(* C10: the document as an XML 1.0 parser reads it.  A CDATA section ends  *)
(* at the first ']]>' after its opening; every character of a document     *)
(* must be a legal XML character (#x9, #xA, #xD, #x20-#xD7FF,              *)
(* #xE000-#xFFFD, #x10000-#x10FFFF).  The template around the two fields   *)
(* is a fixed well-formed literal, so the parser accepts the document when *)
(* its characters are legal and the module's CDATA section ends at the     *)
(* template's own ']]>', leaving the template's tail after it.             *)
(***************************************************************************)
XmlChar(c) ==
    \/ c \in {9, 10, 13}
    \/ (32 <= c /\ c <= 55295)
    \/ (57344 <= c /\ c <= 65533)
    \/ (65536 <= c /\ c <= 1114111)
CDataOpen == <<60, 33, 91, 67, 68, 65, 84, 65, 91>>
CDataClose == <<93, 93, 62>>
\* 0-based index of the first character of the module's CDATA section (the first of
\* the document), and of the ']]>' that ends it
ModuleCDataStart(doc) == FirstAt(doc, CDataOpen, 0) + Len(CDataOpen)
ModuleCDataEnd(doc) == FirstAt(doc, CDataClose, ModuleCDataStart(doc))
ParsedModuleText(doc) == SubSeq(doc, ModuleCDataStart(doc) + 1, ModuleCDataEnd(doc))
ParserAccepts(doc) ==
    LET open == FirstAt(doc, CDataOpen, 0)
        end == FirstAt(doc, CDataClose, open + Len(CDataOpen))
    IN  /\ \A i \in 1..Len(doc) : XmlChar(doc[i])
        /\ open >= 0
        /\ end >= 0
        /\ SubSeq(doc, 1, open + Len(CDataOpen)) = XmlPart1 \o processing_uuid \o XmlPart2
        /\ \A i \in 1..Len(processing_uuid) : processing_uuid[i] \in UpperHex
        /\ SubSeq(doc, end + 1, Len(doc)) = XmlPart3

InputTexts == {PrimaryText, SecondaryText, TertiaryText}
NoCDataCloseInInputs == \A t \in InputTexts : ~Contains(t, CDataClose)
LegalInputs == \A t \in InputTexts : \A i \in 1..Len(t) : XmlChar(t[i])
RoundTrips(doc) == ParserAccepts(doc) /\ ParsedModuleText(doc) = PlacedModuleText(doc)

\* the statements after a successful write
AfterWrite == {"print_created", "print_uuid", "print_size", "done"}

\* C10 as claimed: for inputs none of which contains ']]>', the parser accepts the
\* rendered document and reads back the interpolated module text; the file written is
\* that document.
C10_WellFormedNoCDataClose ==
    /\ (pc = "write" /\ NoCDataCloseInInputs) => RoundTrips(xml_content)
    /\ pc \in AfterWrite => (out_file.exists /\ out_file.content = xml_content)

\* C10 as amended: for inputs none of which contains ']]>' and all of whose characters
\* are legal XML characters, the parser accepts the rendered document and reads back
\* the interpolated module text; the file written is that document.
C10_WellFormedLegalInputs ==
    /\ (pc = "write" /\ NoCDataCloseInInputs /\ LegalInputs) => RoundTrips(xml_content)
    /\ pc \in AfterWrite => (out_file.exists /\ out_file.content = xml_content)

\* a document of three parts, the primary ending in ']]' and the tertiary starting
\* with '>', has been written and reads back
C10_Witness ==
    /\ pc = "done"
    /\ NoCDataCloseInInputs /\ LegalInputs
    /\ Len(ModuleParts) = 3
    /\ EndsWith(PrimaryText, <<93, 93>>)
    /\ StartsWith(TertiaryText, <<62>>)
    /\ ParsedModuleText(out_file.content) = full_module_code
====
